---- MODULE Spec2Model ----
(***************************************************************************)
(* GPX-Analyzer (src/app.py): the track builder parse_gpx, the aggregation *)
(* calculate_features, the three renderers and the request handler index.  *)
(*                                                                         *)
(* Units.  All quantities are fixed-point integers:                        *)
(*   latitude / longitude   milli-degrees (points lie on the equator,      *)
(*                          where the WGS84 geodesic is a * |dlon|)        *)
(*   distance, elevation    millimetres                                    *)
(*   time                   seconds                                        *)
(*   speed                  millimetres per second                         *)
(*   summary values         hundredths (the result of round(x, 2))         *)
(* pandas' missing values keep their identity: None (object column), NaN   *)
(* (float column), NaT (datetime column); inf is IEEE infinity.            *)
(***************************************************************************)
EXTENDS Integers, Sequences, FiniteSets, TLC

VARIABLES
    MAPBOX_ACCESS_TOKEN, \* os.getenv('MAPBOX_ACCESS_TOKEN'): None when unset
    images_dir,          \* whether the directory static/images exists
    files,               \* contents of the three fixed output paths
    figs,                \* pyplot's process-wide stack of open figures
    pc,                  \* per request: the statement it is about to run
    raw,                 \* per request: the points gpxpy parsed from the file
    df,                  \* per request: the DataFrame parse_gpx returned
    summary,             \* per request: what calculate_features returned
    map_file_path,       \* per request: what create_map returned
    plot_file_path,      \* per request: what create_elevation_plot returned
    speed_file_path,     \* per caller: what create_speed_distribution_plot returned
    response,            \* per request: what the client receives
    n_calls,             \* per caller: calls of calculate_features so far
    last_writer          \* per output path: the request that wrote it last

vars == <<MAPBOX_ACCESS_TOKEN, images_dir, files, figs, pc, raw, df, summary,
          map_file_path, plot_file_path, speed_file_path, response,
          n_calls, last_writer>>

---------------------------------------------------------------------------
(* Bounds of the model *)

MaxPoints == 3
MaxIndexPoints == 2
MaxApiPoints == 2
MaxRequests == 2
MaxOpenFigures == 2
MaxCalls == 2

(* Geodesic length of one milli-degree of longitude on the equator, in mm
   (WGS84 semi-major axis 6378137 m * pi / 180000 = 111.32 m). *)
MmPerMilliDegree == 111320

---------------------------------------------------------------------------
(* Values *)

None == [tag |-> "None", val |-> 0]
NaN == [tag |-> "NaN", val |-> 0]
NaT == [tag |-> "NaT", val |-> 0]
Inf == [tag |-> "inf", val |-> 0]
Unset == [tag |-> "unset", val |-> 0]
Float(v) == [tag |-> "float", val |-> v]
Datetime(s) == [tag |-> "datetime", val |-> s]
Path(p) == [tag |-> p, val |-> 0]

isnull(x) == x.tag \in {"None", "NaN", "NaT"}
notnull(x) == ~isnull(x)
IsFloat(x) == x.tag = "float"

(* No DataFrame yet (a built one has at least one row). *)
NoFrame == <<>>

Return(v) == [raised |-> "", value |-> v]
Raise(e) == [raised |-> e, value |-> None]

Abs(n) == IF n < 0 THEN -n ELSE n
Max(a, b) == IF a >= b THEN a ELSE b

RECURSIVE SumSeq(_)
SumSeq(s) == IF s = <<>> THEN 0 ELSE Head(s) + SumSeq(Tail(s))

(* round(): n / d to the nearest integer, ties to the even one (d > 0). *)
RoundDiv(n, d) ==
    LET q == n \div d
        r == n % d
    IN  IF 2 * r < d THEN q
        ELSE IF 2 * r > d THEN q + 1
        ELSE IF q % 2 = 0 THEN q ELSE q + 1

(* IEEE division of a float column by a float column, element by element. *)
FloatDiv(a, b) ==
    IF ~IsFloat(a) \/ ~IsFloat(b) THEN NaN
    ELSE IF b.val = 0 THEN (IF a.val = 0 THEN NaN ELSE Inf)
    ELSE IF b.val > 0 THEN Float(RoundDiv(a.val, b.val))
    ELSE Float(-RoundDiv(a.val, -b.val))

---------------------------------------------------------------------------
(* Inputs: what gpxpy hands to parse_gpx *)

LatValues == {0}
LonValues == {0, 1}
ElevValues == {100000, 130004}
TimeValues == {0, 10}

RawPoint ==
    [latitude : LatValues, longitude : LonValues,
     elevation : {None} \cup {Float(e) : e \in ElevValues},
     time : {None} \cup {Datetime(t) : t \in TimeValues}]

RawTracks(n) == UNION {[1..k -> RawPoint] : k \in 0..n}

---------------------------------------------------------------------------
(* parse_gpx *)

(* pd.DataFrame(data): a column of None only stays an object column of None;
   a column with at least one number becomes float64 with NaN for None. *)
elevation_column(data) ==
    LET all_none == \A i \in 1..Len(data) : data[i].elevation = None
    IN  [i \in 1..Len(data) |->
            IF all_none THEN None
            ELSE IF data[i].elevation = None THEN NaN ELSE data[i].elevation]

(* The same for 'time' (datetime64 with NaT); lines 49-50 then replace an
   all-null column by a column of None. *)
time_column(data) ==
    LET all_null == \A i \in 1..Len(data) : data[i].time = None
    IN  [i \in 1..Len(data) |->
            IF all_null THEN None
            ELSE IF data[i].time = None THEN NaT ELSE data[i].time]

(* shift(1) in place of shift(-1): row i gets row i-1's value. *)
shift_forward(col, missing) ==
    [i \in 1..Len(col) |-> IF i > 1 THEN col[i - 1] ELSE missing]

(* Series.shift(-1): row i gets row i+1's value, the last row a missing one. *)
shift(col, missing) ==
    [i \in 1..Len(col) |-> IF i < Len(col) THEN col[i + 1] ELSE missing]

(* geopy's geodesic(start, end).meters for two points of the equator
   (every latitude of LatValues is 0). *)
geodesic(lat1, lon1, lat2, lon2) ==
    MmPerMilliDegree * Abs(lon2 - lon1)

calculate_distance(row) ==
    IF notnull(row.shifted_latitude) /\ notnull(row.shifted_longitude)
    THEN Float(geodesic(row.latitude, row.longitude,
                        row.shifted_latitude.val, row.shifted_longitude.val))
    ELSE Float(0)

(* (shifted_time - time).dt.total_seconds() *)
time_diff(shifted_time, time) ==
    IF shifted_time.tag = "datetime" /\ time.tag = "datetime"
    THEN Float(shifted_time.val - time.val)
    ELSE NaN

(* isnull().any() in place of isnull().all() at line 67. *)
speed_column_any_null(distance, time) ==
    LET shifted_time == shift(time, NaT)
    IN  IF ~(\E i \in 1..Len(time) : isnull(time[i]))
        THEN [i \in 1..Len(time) |->
                 FloatDiv(distance[i], time_diff(shifted_time[i], time[i]))]
        ELSE [i \in 1..Len(time) |-> None]

speed_column(distance, time) ==
    LET shifted_time == shift(time, NaT)
    IN  IF ~(\A i \in 1..Len(time) : isnull(time[i]))
        THEN [i \in 1..Len(time) |->
                 FloatDiv(distance[i], time_diff(shifted_time[i], time[i]))]
        ELSE [i \in 1..Len(time) |-> None]

(* Lines 44-75 for a frame with at least one row. *)
build_frame(data) ==
    LET n == Len(data)
        elevation == elevation_column(data)
        time == time_column(data)
        shifted_latitude == shift([i \in 1..n |-> Float(data[i].latitude)], NaN)
        shifted_longitude == shift([i \in 1..n |-> Float(data[i].longitude)], NaN)
        distance == [i \in 1..n |->
            calculate_distance([latitude |-> data[i].latitude,
                                longitude |-> data[i].longitude,
                                shifted_latitude |-> shifted_latitude[i],
                                shifted_longitude |-> shifted_longitude[i]])]
        speed == speed_column(distance, time)
    IN  [i \in 1..n |->
            [latitude |-> data[i].latitude, longitude |-> data[i].longitude,
             elevation |-> elevation[i], time |-> time[i],
             distance |-> distance[i], speed |-> speed[i]]]

(* An empty frame returned as it is. *)
parse_gpx_accepts_empty(data) ==
    IF data = <<>> THEN Return(<<>>) ELSE Return(build_frame(data))

(* pd.DataFrame([]) has no columns: lines 47-50 add empty 'elevation' and
   'time' columns, and df['latitude'] at line 53 is a KeyError. *)
parse_gpx(data) ==
    IF data = <<>> THEN Raise("KeyError") ELSE Return(build_frame(data))

---------------------------------------------------------------------------
(* calculate_features *)

(* Series.sum(): missing values are skipped. *)
nansum(col) ==
    SumSeq([i \in 1..Len(col) |-> IF IsFloat(col[i]) THEN col[i].val ELSE 0])

total_distance_of(d) ==
    Float(RoundDiv(nansum([i \in 1..Len(d) |-> d[i].distance]), 10000))

(* round(df['speed'].mean() * 3.6, 2): the mean skips missing values and is
   NaN when nothing is left; an inf among the values makes it inf. *)
average_speed_of(d) ==
    LET speed == [i \in 1..Len(d) |-> d[i].speed]
        valid == {i \in 1..Len(d) : IsFloat(speed[i])}
    IN  IF \E i \in 1..Len(d) : speed[i] = Inf THEN Inf
        ELSE IF valid = {} THEN NaN
        ELSE Float(RoundDiv(nansum(speed) * 9, 25 * Cardinality(valid)))

(* Series.diff(): row i minus row i-1, NaN in the first row and wherever an
   operand is NaN. *)
diff(col) ==
    [i \in 1..Len(col) |->
        IF i > 1 /\ IsFloat(col[i]) /\ IsFloat(col[i - 1])
        THEN Float(col[i].val - col[i - 1].val)
        ELSE NaN]

(* The clip left out. *)
clip_nothing(col) == col

clip_lower_0(col) ==
    [i \in 1..Len(col) |->
        IF IsFloat(col[i]) THEN Float(Max(0, col[i].val)) ELSE col[i]]

(* diff() subtracts an object column's elements as they are: None - None is
   a TypeError as soon as there is a second row to subtract from. *)
total_elevation_gain_of(d) ==
    LET elevation == [i \in 1..Len(d) |-> d[i].elevation]
    IN  IF Len(d) >= 2 /\ \A i \in 1..Len(d) : elevation[i] = None
        THEN Raise("TypeError")
        ELSE Return(Float(RoundDiv(nansum(clip_lower_0(diff(elevation))), 10)))

calculate_features(d) ==
    LET gain == total_elevation_gain_of(d)
    IN  IF gain.raised # ""
        THEN Raise(gain.raised)
        ELSE Return([total_distance |-> total_distance_of(d),
                     average_speed |-> average_speed_of(d),
                     total_elevation_gain |-> gain.value])

---------------------------------------------------------------------------
(* Output files.  A file is a sequence of chunks; <<>> is a missing or an
   empty file.  open(path, 'wb') truncates; a write puts its chunks at
   offset 0 and leaves what the file holds beyond them. *)

Chunk(kind, a, b) == [kind |-> kind, a |-> a, b |-> b]

truncate(file) == <<>>

write_at_0(file, data) ==
    data \o (IF Len(file) > Len(data)
             THEN SubSeq(file, Len(data) + 1, Len(file)) ELSE <<>>)

MAP_HTML == Path("static/maps/map.html")
ELEVATION_PNG == Path("static/images/elevation_plot.png")
SPEED_PNG == Path("static/images/speed_distribution_plot.png")

(* What an earlier request left at the three paths. *)
PriorFiles ==
    [map |-> <<Chunk("prior", 0, None)>>,
     elevation |-> <<Chunk("prior", 0, None)>>,
     speed |-> <<Chunk("prior", 0, None)>>]

NoFiles == [map |-> <<>>, elevation |-> <<>>, speed |-> <<>>]

---------------------------------------------------------------------------
(* create_map *)

(* The rendered document: the map centred at the mean latitude / longitude
   (in micro-degrees), then the polyline through every row in order. *)
map_document(d) ==
    LET n == Len(d)
        lat == RoundDiv(1000 * SumSeq([i \in 1..n |-> d[i].latitude]), n)
        lon == RoundDiv(1000 * SumSeq([i \in 1..n |-> d[i].longitude]), n)
    IN  <<Chunk("center", lat, Float(lon))>>
        \o [i \in 1..n |-> Chunk("point", d[i].latitude, Float(d[i].longitude))]

(* m.save(map_file_path): open(outfile, 'wb'), render, write, close. *)
save(file, data) == write_at_0(truncate(file), data)

(* The tiles URL is built by 'https://...access_token=' + MAPBOX_ACCESS_TOKEN:
   str + None is a TypeError, raised before anything is written. *)
create_map(d, token, file) ==
    IF token = None
    THEN [raised |-> "TypeError", value |-> None, file |-> file, df |-> d]
    ELSE [raised |-> "", value |-> MAP_HTML,
          file |-> save(file, map_document(d)), df |-> d]

---------------------------------------------------------------------------
(* pyplot.  figs is pyplot's stack of open figures, the last one current;
   a figure is the sequence of chunks drawn on it. *)

plt_figure(fs) == Append(fs, <<>>)

(* plt.gcf(): the current figure, a new one when none is open. *)
gcf(fs) == IF fs = <<>> THEN plt_figure(fs) ELSE fs

plt_draw(fs, data) ==
    LET g == gcf(fs)
    IN  [g EXCEPT ![Len(g)] = @ \o data]

plt_close(fs) == IF fs = <<>> THEN fs ELSE SubSeq(fs, 1, Len(fs) - 1)

png(fig) == <<Chunk("png", 0, None)>> \o fig

(* df['distance'].cumsum() / 1000 against df['elevation'] *)
elevation_data(d) ==
    [i \in 1..Len(d) |->
        Chunk("xy", nansum([j \in 1..i |-> d[j].distance]), d[i].elevation)]

(* speed * 3.6: the rows with a number; NaN rows are not drawn. *)
speed_data(d) ==
    LET rows == {i \in 1..Len(d) : IsFloat(d[i].speed)}
        RECURSIVE pick(_)
        pick(i) == IF i > Len(d) THEN <<>>
                   ELSE (IF i \in rows
                         THEN <<Chunk("kmh", 0, Float(d[i].speed.val * 36))>>
                         ELSE <<>>) \o pick(i + 1)
    IN  pick(1)

(* plt.hist raises when the values hold an inf, or no number at all (a
   time-less track: None * 3.6 is NaN in every row): the range of the bins
   is not finite. *)
hist_raises(d) ==
    \/ \E i \in 1..Len(d) : d[i].speed = Inf
    \/ \A i \in 1..Len(d) : ~IsFloat(d[i].speed)

(* NaN among numbers (the last row always is one): whether the range is
   taken over the numbers alone depends on the library version. *)
hist_may_raise(d) == \E i \in 1..Len(d) : d[i].speed = NaN

(* fill_between on an object column of None: whether numpy masks it or
   raises depends on the library version. *)
fill_between_may_raise(d) == \A i \in 1..Len(d) : d[i].elevation = None

Plotted(path, file, fs, d) ==
    [value |-> path, file |-> file, figs |-> fs, df |-> d]

(* df['distance'] = df['distance'].cumsum() before plotting: the running
   total is stored back into the frame. *)
create_elevation_plot_inplace(d, dir, file, fs) ==
    LET cum == [i \in 1..Len(d) |->
                   [d[i] EXCEPT !.distance =
                       Float(nansum([j \in 1..i |-> d[j].distance]))]]
        drawn == plt_draw(plt_figure(fs), elevation_data(d))
        saved == Plotted(ELEVATION_PNG, save(file, png(drawn[Len(drawn)])),
                         plt_close(drawn), cum)
        failed_plot == Plotted(None, file, plt_figure(fs), cum)
        failed_save == Plotted(None, file, drawn, cum)
    IN  (IF fill_between_may_raise(d) THEN {failed_plot} ELSE {})
        \cup (IF dir THEN {saved} ELSE {failed_save})

(* try: figure, plot, savefig, close, return the path;
   except Exception: return None (the figure stays open). *)
create_elevation_plot(d, dir, file, fs) ==
    LET drawn == plt_draw(plt_figure(fs), elevation_data(d))
        saved == Plotted(ELEVATION_PNG, save(file, png(drawn[Len(drawn)])),
                         plt_close(drawn), d)
        failed_plot == Plotted(None, file, plt_figure(fs), d)
        failed_save == Plotted(None, file, drawn, d)
    IN  (IF fill_between_may_raise(d) THEN {failed_plot} ELSE {})
        \cup (IF dir THEN {saved} ELSE {failed_save})

create_speed_distribution_plot(d, dir, file, fs) ==
    LET drawn == plt_draw(plt_figure(fs), speed_data(d))
        saved == Plotted(SPEED_PNG, save(file, png(drawn[Len(drawn)])),
                         plt_close(drawn), d)
        failed_plot == Plotted(None, file, plt_figure(fs), d)
        failed_save == Plotted(None, file, drawn, d)
    IN  IF hist_raises(d) THEN {failed_plot}
        ELSE (IF hist_may_raise(d) THEN {failed_plot} ELSE {})
             \cup (IF dir THEN {saved} ELSE {failed_save})

---------------------------------------------------------------------------
(* index: the POST branch from line 179 on, one request r.  An exception
   that leaves index ends the request with a 500 response. *)

(* What render_template('results.html', ...) is given. *)
Response(r) ==
    [status |-> 200, exception |-> "", summary |-> summary[r],
     map_file_path |-> map_file_path[r], plot_file_path |-> plot_file_path[r]]

(* An exception left index: the client gets a 500 and nothing else. *)
ErrorResponse(exc) ==
    [status |-> 500, exception |-> exc, summary |-> Unset,
     map_file_path |-> Unset, plot_file_path |-> Unset]

index_parse_gpx(r) ==
    /\ pc[r] = "parse_gpx"
    /\ LET res == parse_gpx(raw[r])
       IN  IF res.raised # ""
           THEN /\ pc' = [pc EXCEPT ![r] = "error"]
                /\ response' = [response EXCEPT ![r] = ErrorResponse(res.raised)]
                /\ df' = df
           ELSE /\ pc' = [pc EXCEPT ![r] = "calculate_features"]
                /\ df' = [df EXCEPT ![r] = res.value]
                /\ response' = response
    /\ UNCHANGED <<MAPBOX_ACCESS_TOKEN, images_dir, n_calls, files, figs, raw, summary,
                   map_file_path, plot_file_path, speed_file_path, last_writer>>

index_calculate_features(r) ==
    /\ pc[r] = "calculate_features"
    /\ LET res == calculate_features(df[r])
       IN  IF res.raised # ""
           THEN /\ pc' = [pc EXCEPT ![r] = "error"]
                /\ response' = [response EXCEPT ![r] = ErrorResponse(res.raised)]
                /\ summary' = summary
           ELSE /\ pc' = [pc EXCEPT ![r] = "create_map"]
                /\ summary' = [summary EXCEPT ![r] = res.value]
                /\ response' = response
    /\ UNCHANGED <<MAPBOX_ACCESS_TOKEN, images_dir, n_calls, files, figs, raw, df,
                   map_file_path, plot_file_path, speed_file_path, last_writer>>

index_create_map(r) ==
    /\ pc[r] = "create_map"
    /\ LET res == create_map(df[r], MAPBOX_ACCESS_TOKEN, files.map)
       IN  /\ df' = [df EXCEPT ![r] = res.df]
           /\ files' = [files EXCEPT !.map = res.file]
           /\ IF res.raised # ""
              THEN /\ pc' = [pc EXCEPT ![r] = "error"]
                   /\ response' = [response EXCEPT ![r] = ErrorResponse(res.raised)]
                   /\ UNCHANGED <<map_file_path, last_writer>>
              ELSE /\ pc' = [pc EXCEPT ![r] = "create_elevation_plot"]
                   /\ map_file_path' = [map_file_path EXCEPT ![r] = res.value]
                   /\ last_writer' = [last_writer EXCEPT !.map = r]
                   /\ response' = response
    /\ UNCHANGED <<MAPBOX_ACCESS_TOKEN, images_dir, n_calls, figs, raw, summary,
                   plot_file_path, speed_file_path>>

index_create_elevation_plot(r) ==
    /\ pc[r] = "create_elevation_plot"
    /\ Len(figs) < MaxOpenFigures
    /\ \E res \in create_elevation_plot(df[r], images_dir, files.elevation, figs) :
           /\ df' = [df EXCEPT ![r] = res.df]
           /\ files' = [files EXCEPT !.elevation = res.file]
           /\ figs' = res.figs
           /\ plot_file_path' = [plot_file_path EXCEPT ![r] = res.value]
           /\ last_writer' = IF res.value = None THEN last_writer
                             ELSE [last_writer EXCEPT !.elevation = r]
    /\ pc' = [pc EXCEPT ![r] = "render_template"]
    /\ UNCHANGED <<MAPBOX_ACCESS_TOKEN, images_dir, n_calls, raw, summary, map_file_path,
                   speed_file_path, response>>

index_render_template(r) ==
    /\ pc[r] = "render_template"
    /\ pc' = [pc EXCEPT ![r] = "done"]
    /\ response' = [response EXCEPT ![r] = Response(r)]
    /\ UNCHANGED <<MAPBOX_ACCESS_TOKEN, images_dir, n_calls, files, figs, raw, df, summary,
                   map_file_path, plot_file_path, speed_file_path, last_writer>>

---------------------------------------------------------------------------
(* The functions called one by one on a built track, in any order, by a
   caller r that keeps what each call returned (an exception included). *)

Raised(e) == [tag |-> e, val |-> 0]

api_parse_gpx(r) ==
    /\ pc[r] = "parse_gpx"
    /\ LET res == parse_gpx(raw[r])
       IN  IF res.raised # ""
           THEN pc' = [pc EXCEPT ![r] = "error"] /\ df' = df
           ELSE pc' = [pc EXCEPT ![r] = "built"] /\ df' = [df EXCEPT ![r] = res.value]
    /\ UNCHANGED <<MAPBOX_ACCESS_TOKEN, images_dir, n_calls, files, figs, raw,
                   summary, map_file_path, plot_file_path, speed_file_path,
                   response, last_writer>>

api_calculate_features(r) ==
    /\ pc[r] = "built"
    /\ n_calls[r] < MaxCalls
    /\ LET res == calculate_features(df[r])
       IN  summary' = [summary EXCEPT
                          ![r] = IF res.raised # "" THEN Raised(res.raised)
                                 ELSE res.value]
    /\ n_calls' = [n_calls EXCEPT ![r] = @ + 1]
    /\ UNCHANGED <<MAPBOX_ACCESS_TOKEN, images_dir, files, figs, pc, raw, df,
                   map_file_path, plot_file_path, speed_file_path, response,
                   last_writer>>

api_create_map(r) ==
    /\ pc[r] = "built"
    /\ LET res == create_map(df[r], MAPBOX_ACCESS_TOKEN, files.map)
       IN  /\ df' = [df EXCEPT ![r] = res.df]
           /\ files' = [files EXCEPT !.map = res.file]
           /\ map_file_path' = [map_file_path EXCEPT
                                   ![r] = IF res.raised # "" THEN Raised(res.raised)
                                          ELSE res.value]
           /\ last_writer' = IF res.raised # "" THEN last_writer
                             ELSE [last_writer EXCEPT !.map = r]
    /\ UNCHANGED <<MAPBOX_ACCESS_TOKEN, images_dir, n_calls, figs, pc, raw,
                   summary, plot_file_path, speed_file_path, response>>

api_create_elevation_plot(r) ==
    /\ pc[r] = "built"
    /\ Len(figs) < MaxOpenFigures
    /\ \E res \in create_elevation_plot(df[r], images_dir, files.elevation, figs) :
           /\ df' = [df EXCEPT ![r] = res.df]
           /\ files' = [files EXCEPT !.elevation = res.file]
           /\ figs' = res.figs
           /\ plot_file_path' = [plot_file_path EXCEPT ![r] = res.value]
           /\ last_writer' = IF res.value = None THEN last_writer
                             ELSE [last_writer EXCEPT !.elevation = r]
    /\ UNCHANGED <<MAPBOX_ACCESS_TOKEN, images_dir, n_calls, pc, raw, summary,
                   map_file_path, speed_file_path, response>>

api_create_speed_distribution_plot(r) ==
    /\ pc[r] = "built"
    /\ Len(figs) < MaxOpenFigures
    /\ \E res \in create_speed_distribution_plot(df[r], images_dir, files.speed, figs) :
           /\ df' = [df EXCEPT ![r] = res.df]
           /\ files' = [files EXCEPT !.speed = res.file]
           /\ figs' = res.figs
           /\ speed_file_path' = [speed_file_path EXCEPT ![r] = res.value]
           /\ last_writer' = IF res.value = None THEN last_writer
                             ELSE [last_writer EXCEPT !.speed = r]
    /\ UNCHANGED <<MAPBOX_ACCESS_TOKEN, images_dir, n_calls, pc, raw, summary,
                   map_file_path, plot_file_path, response>>

---------------------------------------------------------------------------
(* index under a threaded server: the requests' statements interleave.
   create_map and create_elevation_plot are taken statement by statement
   where they touch what the requests share: the output files and pyplot's
   current figure. *)

(* lines 94-99, then m.save: fid = open(outfile, 'wb') *)
map_open(r) ==
    /\ pc[r] = "create_map"
    /\ IF MAPBOX_ACCESS_TOKEN = None
       THEN /\ pc' = [pc EXCEPT ![r] = "error"]
            /\ response' = [response EXCEPT ![r] = ErrorResponse("TypeError")]
            /\ files' = files
       ELSE /\ pc' = [pc EXCEPT ![r] = "map_write"]
            /\ files' = [files EXCEPT !.map = truncate(@)]
            /\ response' = response
    /\ UNCHANGED <<MAPBOX_ACCESS_TOKEN, images_dir, n_calls, figs, raw, df,
                   summary, map_file_path, plot_file_path, speed_file_path,
                   last_writer>>

(* m.save: fid.write(html), fid.close(); return map_file_path *)
map_write(r) ==
    /\ pc[r] = "map_write"
    /\ files' = [files EXCEPT !.map = write_at_0(@, map_document(df[r]))]
    /\ last_writer' = [last_writer EXCEPT !.map = r]
    /\ map_file_path' = [map_file_path EXCEPT ![r] = MAP_HTML]
    /\ pc' = [pc EXCEPT ![r] = "plt_figure"]
    /\ UNCHANGED <<MAPBOX_ACCESS_TOKEN, images_dir, n_calls, figs, raw, df,
                   summary, plot_file_path, speed_file_path, response>>

(* line 118 *)
elevation_figure(r) ==
    /\ pc[r] = "plt_figure"
    /\ figs' = plt_figure(figs)
    /\ pc' = [pc EXCEPT ![r] = "plt_plot"]
    /\ UNCHANGED <<MAPBOX_ACCESS_TOKEN, images_dir, n_calls, files, raw, df,
                   summary, map_file_path, plot_file_path, speed_file_path,
                   response, last_writer>>

(* lines 119-124: drawn on whichever figure is current *)
elevation_plot(r) ==
    /\ pc[r] = "plt_plot"
    /\ \/ /\ figs' = plt_draw(figs, elevation_data(df[r]))
          /\ pc' = [pc EXCEPT ![r] = "plt_savefig"]
          /\ plot_file_path' = plot_file_path
       \/ /\ fill_between_may_raise(df[r])
          /\ figs' = figs
          /\ pc' = [pc EXCEPT ![r] = "render_template"]
          /\ plot_file_path' = [plot_file_path EXCEPT ![r] = None]
    /\ UNCHANGED <<MAPBOX_ACCESS_TOKEN, images_dir, n_calls, files, raw, df,
                   summary, map_file_path, speed_file_path, response,
                   last_writer>>

(* line 128: the current figure is rendered and written to the file (the
   open and the write taken as one step) *)
elevation_savefig(r) ==
    /\ pc[r] = "plt_savefig"
    /\ IF images_dir
       THEN LET g == gcf(figs)
            IN  /\ figs' = g
                /\ files' = [files EXCEPT !.elevation = save(@, png(g[Len(g)]))]
                /\ last_writer' = [last_writer EXCEPT !.elevation = r]
                /\ pc' = [pc EXCEPT ![r] = "plt_close"]
                /\ plot_file_path' = plot_file_path
       ELSE /\ pc' = [pc EXCEPT ![r] = "render_template"]
            /\ plot_file_path' = [plot_file_path EXCEPT ![r] = None]
            /\ UNCHANGED <<figs, files, last_writer>>
    /\ UNCHANGED <<MAPBOX_ACCESS_TOKEN, images_dir, n_calls, raw, df, summary,
                   map_file_path, speed_file_path, response>>

(* lines 129-132 *)
elevation_close(r) ==
    /\ pc[r] = "plt_close"
    /\ figs' = plt_close(figs)
    /\ plot_file_path' = [plot_file_path EXCEPT ![r] = ELEVATION_PNG]
    /\ pc' = [pc EXCEPT ![r] = "render_template"]
    /\ UNCHANGED <<MAPBOX_ACCESS_TOKEN, images_dir, n_calls, files, raw, df,
                   summary, map_file_path, speed_file_path, response,
                   last_writer>>

---------------------------------------------------------------------------
(* Specifications *)

Requests == 1..MaxRequests

InitWith(reqs, tracks, tokens, dirs, fileses) ==
    /\ MAPBOX_ACCESS_TOKEN \in tokens
    /\ images_dir \in dirs
    /\ files \in fileses
    /\ figs = <<>>
    /\ raw \in [reqs -> tracks]
    /\ pc = [r \in reqs |-> "parse_gpx"]
    /\ df = [r \in reqs |-> NoFrame]
    /\ summary = [r \in reqs |-> Unset]
    /\ map_file_path = [r \in reqs |-> Unset]
    /\ plot_file_path = [r \in reqs |-> Unset]
    /\ speed_file_path = [r \in reqs |-> Unset]
    /\ response = [r \in reqs |-> Unset]
    /\ n_calls = [r \in reqs |-> 0]
    /\ last_writer = [map |-> 0, elevation |-> 0, speed |-> 0]

Token == Path("pk.token")

(* Track building and aggregation alone: parse_gpx, then calculate_features,
   over every track of up to MaxPoints points. *)
InitDerive == InitWith({1}, RawTracks(MaxPoints), {Token}, {TRUE}, {NoFiles})

NextDerive ==
    \/ \E r \in DOMAIN pc : index_parse_gpx(r)
    \/ \E r \in DOMAIN pc : index_calculate_features(r)

SpecDerive == InitDerive /\ [][NextDerive]_vars

(* One request through index, in every environment. *)
Init == InitWith({1}, RawTracks(MaxIndexPoints), {Token, None}, BOOLEAN,
                 {NoFiles, PriorFiles})

Next ==
    \/ \E r \in DOMAIN pc : index_parse_gpx(r)
    \/ \E r \in DOMAIN pc : index_calculate_features(r)
    \/ \E r \in DOMAIN pc : index_create_map(r)
    \/ \E r \in DOMAIN pc : index_create_elevation_plot(r)
    \/ \E r \in DOMAIN pc : index_render_template(r)

Spec == Init /\ [][Next]_vars

(* The functions called directly on every track of up to MaxApiPoints. *)
InitApi == InitWith({1}, RawTracks(MaxApiPoints), {Token}, {TRUE}, {NoFiles})

NextApi ==
    \/ \E r \in DOMAIN pc : api_parse_gpx(r)
    \/ \E r \in DOMAIN pc : api_calculate_features(r)
    \/ \E r \in DOMAIN pc : api_create_map(r)
    \/ \E r \in DOMAIN pc : api_create_elevation_plot(r)
    \/ \E r \in DOMAIN pc : api_create_speed_distribution_plot(r)

SpecApi == InitApi /\ [][NextApi]_vars

(* Concurrent requests, each with a track that gets through track building
   and aggregation. *)
ConcTracks ==
    {t \in RawTracks(MaxIndexPoints) :
        /\ t # <<>>
        /\ \A i \in 1..Len(t) : t[i].elevation # None /\ t[i].time = None}

InitConc == InitWith(Requests, ConcTracks, {Token}, {TRUE}, {NoFiles})

NextConc ==
    \/ \E r \in DOMAIN pc : index_parse_gpx(r)
    \/ \E r \in DOMAIN pc : index_calculate_features(r)
    \/ \E r \in DOMAIN pc : map_open(r)
    \/ \E r \in DOMAIN pc : map_write(r)
    \/ \E r \in DOMAIN pc : elevation_figure(r)
    \/ \E r \in DOMAIN pc : elevation_plot(r)
    \/ \E r \in DOMAIN pc : elevation_savefig(r)
    \/ \E r \in DOMAIN pc : elevation_close(r)
    \/ \E r \in DOMAIN pc : index_render_template(r)

SpecConc == InitConc /\ [][NextConc]_vars

---------------------------------------------------------------------------
(* Reference definitions the properties are stated with *)

Built(r) == df[r] # NoFrame
Summarized(r) == summary[r] # Unset
HasTime(p) == p.time # None
HasElevation(p) == p.elevation # None

(* Seconds from point i to point i+1 of a track whose points i, i+1 both
   carry a timestamp. *)
Duration(data, i) == data[i + 1].time.val - data[i].time.val

(* sum of max(0, e[i+1] - e[i]) over consecutive elements of e *)
RECURSIVE GainOf(_)
GainOf(e) ==
    IF Len(e) < 2 THEN 0
    ELSE Max(0, e[2] - e[1]) + GainOf(Tail(e))

NonIncreasing(e) == \A i \in 1..(Len(e) - 1) : e[i + 1] <= e[i]

Elevations(data) == [i \in 1..Len(data) |-> data[i].elevation.val]

(* Elevations with every missing one replaced by 0. *)
ElevationsOr0(data) ==
    [i \in 1..Len(data) |->
        IF HasElevation(data[i]) THEN data[i].elevation.val ELSE 0]

---------------------------------------------------------------------------
(* Track building and aggregation (SpecDerive) *)

(* C6: for a track whose points all have an elevation, total_elevation_gain
   is the sum over consecutive pairs of max(0, elevation[i+1] - elevation[i])
   (as calculate_features returns it: rounded to 2 decimals); it is never
   negative, and 0 for a non-increasing elevation sequence. *)
C6_ElevationGainIsClippedSum ==
    \A r \in DOMAIN pc :
        (raw[r] # <<>> /\ \A i \in 1..Len(raw[r]) : HasElevation(raw[r][i])) =>
            /\ pc[r] \notin {"parse_gpx", "calculate_features"} => Summarized(r)
            /\ Summarized(r) =>
                LET gain == summary[r].total_elevation_gain
                    e == Elevations(raw[r])
                IN  /\ gain = Float(RoundDiv(GainOf(e), 10))
                    /\ gain.val >= 0
                    /\ NonIncreasing(e) => gain.val = 0

C6_Witness ==
    /\ Summarized(1)
    /\ Len(raw[1]) = 3
    /\ Elevations(raw[1]) = <<100000, 130004, 100000>>
    /\ summary[1].total_elevation_gain = Float(3000)

(* C4: track building replaces every missing elevation by 0, so that
   total_elevation_gain of any track is the sum of max(0, e[i+1] - e[i]) over
   the elevations with each missing one replaced by 0. *)
C4_MissingElevationCountsAs0 ==
    \A r \in DOMAIN pc :
        Summarized(r) =>
            summary[r].total_elevation_gain
                = Float(RoundDiv(GainOf(ElevationsOr0(raw[r])), 10))

(* C8: a track of N >= 1 points has N-1 segment distances, segment i being
   the distance from point i to point i+1 in input order; the last point
   carries 0, every distance is >= 0, identical consecutive coordinates are
   0 apart, and the total distance is the sum of the N-1 distances (in km,
   rounded to 2 decimals). *)
C8_SegmentDistances ==
    \A r \in DOMAIN pc :
        Built(r) =>
            LET n == Len(raw[r])
                d == df[r]
                between(i) == geodesic(raw[r][i].latitude, raw[r][i].longitude,
                                       raw[r][i + 1].latitude, raw[r][i + 1].longitude)
            IN  /\ Len(d) = n
                /\ d[n].distance = Float(0)
                /\ \A i \in 1..(n - 1) :
                      /\ d[i].distance = Float(between(i))
                      /\ d[i].distance.val >= 0
                      /\ (/\ raw[r][i].latitude = raw[r][i + 1].latitude
                          /\ raw[r][i].longitude = raw[r][i + 1].longitude)
                            => d[i].distance = Float(0)
                /\ Summarized(r) =>
                      summary[r].total_distance
                          = Float(RoundDiv(SumSeq([i \in 1..(n - 1) |-> between(i)]),
                                           10000))

C8_Witness ==
    /\ Summarized(1)
    /\ Len(df[1]) = 3
    /\ df[1][1].distance = Float(MmPerMilliDegree)
    /\ df[1][2].distance = Float(0)
    /\ df[1][3].distance = Float(0)
    /\ summary[1].total_distance = Float(11)

(* The average speed, in hundredths of km/h, over the segments of positive
   duration of a track whose points all carry a timestamp. *)
AverageOverPositiveDurations(data, d) ==
    LET n == Len(data)
        pos == {i \in 1..(n - 1) : Duration(data, i) > 0}
        mmps == [i \in 1..(n - 1) |->
                    IF i \in pos
                    THEN RoundDiv(d[i].distance.val, Duration(data, i)) ELSE 0]
    IN  IF pos = {} THEN NaN
        ELSE Float(RoundDiv(SumSeq(mmps) * 9, 25 * Cardinality(pos)))

(* C1: in a track whose points all carry a timestamp, a segment of zero or
   negative duration has an undefined speed (not inf, not a negative number),
   and it does not count in average_speed. *)
C1_NonPositiveDurationSpeedAbsent ==
    \A r \in DOMAIN pc :
        (Built(r) /\ \A i \in 1..Len(raw[r]) : HasTime(raw[r][i])) =>
            /\ \A i \in 1..(Len(raw[r]) - 1) :
                  Duration(raw[r], i) <= 0 => isnull(df[r][i].speed)
            /\ Summarized(r) =>
                  summary[r].average_speed
                      = AverageOverPositiveDurations(raw[r], df[r])

---------------------------------------------------------------------------
(* The request handler (Spec) *)

Finished(r) == pc[r] \in {"done", "error"}

(* C3: once a request is past track building and has its summary, a renderer
   that fails costs only its own artifact: the request still answers with
   the summary, and the elevation renderer is attempted whatever the map
   renderer did. *)
C3_RendererFailureIsContained ==
    \A r \in DOMAIN pc :
        (Summarized(r) /\ Finished(r)) =>
            /\ response[r].status = 200
            /\ response[r].summary = summary[r]
            /\ plot_file_path[r] # Unset

(* C5: a request with an empty point sequence ends in an error at track
   building: it never gets a summary, and none of its steps writes any of
   the three output files. *)
C5_EmptyTrackAbortsEarly ==
    [][\A r \in DOMAIN pc :
          raw[r] = <<>> =>
              /\ pc'[r] \in {"parse_gpx", "error"}
              /\ pc'[r] = "error" => response'[r].status = 500
              /\ summary'[r] = Unset
              /\ map_file_path'[r] = Unset /\ plot_file_path'[r] = Unset
              /\ files' = files
              /\ last_writer' = last_writer]_vars

C5_Witness ==
    /\ raw[1] = <<>>
    /\ pc[1] = "error"
    /\ response[1].status = 500
    /\ response[1].summary = Unset
    /\ files = PriorFiles

---------------------------------------------------------------------------
(* The functions called directly (SpecApi) *)

(* C7: for a track without any timestamp every speed is absent,
   calculate_features returns an absent average_speed together with the
   total distance and the elevation gain, and the speed-distribution
   renderer returns None. *)
C7_TimelessTrack ==
    \A r \in DOMAIN pc :
        (Built(r) /\ \A i \in 1..Len(raw[r]) : ~HasTime(raw[r][i])) =>
            /\ \A i \in 1..Len(df[r]) : isnull(df[r][i].speed)
            /\ n_calls[r] > 0 =>
                  /\ summary[r] \notin {Raised("TypeError"), Unset}
                  /\ isnull(summary[r].average_speed)
                  /\ IsFloat(summary[r].total_distance)
                  /\ IsFloat(summary[r].total_elevation_gain)
            /\ speed_file_path[r] \in {Unset, None}

(* C10: once built, the frame is never changed by calculate_features or by a
   renderer, and a later calculate_features returns what the earlier one
   returned. *)
C10_TrackIsFrozen ==
    [][\A r \in DOMAIN pc :
          Built(r) =>
              /\ df'[r] = df[r]
              /\ n_calls[r] > 0 => summary'[r] = summary[r]]_vars

C10_Witness ==
    /\ n_calls[1] = 2
    /\ Len(df[1]) = 2
    /\ df[1][1].distance = Float(MmPerMilliDegree)
    /\ map_file_path[1] = MAP_HTML
    /\ plot_file_path[1] = ELEVATION_PNG
    /\ speed_file_path[1] # Unset
    /\ summary[1] # Raised("TypeError")
    /\ IsFloat(summary[1].average_speed)

---------------------------------------------------------------------------
(* Concurrent requests (SpecConc) *)

(* C9: when all requests are done, each output file holds exactly the
   artifact of the request that wrote it last. *)
C9_LastWriterWins ==
    (\A r \in DOMAIN pc : pc[r] = "done") =>
        /\ files.map = map_document(df[last_writer.map])
        /\ files.elevation = png(elevation_data(df[last_writer.elevation]))

====
